---- MODULE Spec2Model ----
(***************************************************************************)
(* Model of chatbot/src/connect/twitch_chat/parsing.rs: the parser of one  *)
(* Twitch IRC line (MessageType::from_str).                                *)
(*                                                                         *)
(* A string is a sequence of Unicode scalar values (code points).  Byte    *)
(* offsets are computed from the UTF-8 width of each scalar, as            *)
(* str::char_indices does, and a slice by byte offsets panics when an      *)
(* offset is not on a scalar boundary, as str indexing does.               *)
(***************************************************************************)
EXTENDS Integers, Sequences, FiniteSets, TLC

VARIABLES raw_message, pc, state, marker, user_name, idx, result, earlier

vars == <<raw_message, pc, state, marker, user_name, idx, result, earlier>>

\* what a running call never changes: its argument, and the calls that
\* returned before it (each with its line and its result)
argument == <<raw_message, earlier>>

(***************************************************************************)
(* Bounds of the input lines.                                              *)
(***************************************************************************)
MaxNick == 2
MaxBody == 3
\* number of calls of from_str that follow one another
MaxCalls == 3

(***************************************************************************)
(* String primitives of the Rust standard library, as the parser uses them *)
(***************************************************************************)

\* char::len_utf8: how many bytes the scalar takes in the line
len_utf8(c) ==
    IF c < 128 THEN 1 ELSE IF c < 2048 THEN 2 ELSE IF c < 65536 THEN 3 ELSE 4

\* byte offset of the k-th scalar of s (k = Len(s) + 1: the length in bytes),
\* the first component of what char_indices yields
RECURSIVE char_index(_, _)
char_index(s, k) ==
    IF k <= 1 THEN 0 ELSE char_index(s, k - 1) + len_utf8(s[k - 1])

\* str::is_char_boundary
is_char_boundary(s, off) ==
    \E k \in 1..(Len(s) + 1) : char_index(s, k) = off

\* &s[a..b] succeeds (otherwise the index expression panics)
slice_ok(s, a, b) ==
    a <= b /\ is_char_boundary(s, a) /\ is_char_boundary(s, b)

\* &s[a..b], for offsets that slice_ok accepts
slice(s, a, b) ==
    LET ka == CHOOSE k \in 1..(Len(s) + 1) : char_index(s, k) = a
        kb == CHOOSE k \in 1..(Len(s) + 1) : char_index(s, k) = b
    IN  SubSeq(s, ka, kb - 1)

\* char::is_whitespace: the scalars with the White_Space property
is_whitespace(c) ==
    \/ c \in 9..13
    \/ c \in {32, 133, 160, 5760, 8232, 8233, 8239, 8287, 12288}
    \/ c \in 8192..8202

RECURSIVE trim_start(_)
trim_start(s) ==
    IF s = <<>> THEN s
    ELSE IF is_whitespace(Head(s)) THEN trim_start(Tail(s)) ELSE s

RECURSIVE trim_end(_)
trim_end(s) ==
    IF s = <<>> THEN s
    ELSE IF is_whitespace(s[Len(s)]) THEN trim_end(SubSeq(s, 1, Len(s) - 1))
    ELSE s

\* trims the front only
trim_front_only(s) == trim_start(s)

\* str::trim
trim(s) == trim_end(trim_start(s))

\* str::starts_with(char)
starts_with(s, c) == s # <<>> /\ Head(s) = c

\* strip_prefix followed by a trim of the rest
RECURSIVE strip_prefix_trimmed(_, _)
strip_prefix_trimmed(s, p) ==
    IF p = <<>> THEN [some |-> TRUE, rest |-> trim(s)]
    ELSE IF s = <<>> \/ Head(s) # Head(p) THEN [some |-> FALSE, rest |-> <<>>]
    ELSE strip_prefix_trimmed(Tail(s), Tail(p))

\* str::strip_prefix: Some(rest) when s begins with p, None otherwise
RECURSIVE strip_prefix(_, _)
strip_prefix(s, p) ==
    IF p = <<>> THEN [some |-> TRUE, rest |-> s]
    ELSE IF s = <<>> \/ Head(s) # Head(p) THEN [some |-> FALSE, rest |-> <<>>]
    ELSE strip_prefix(Tail(s), Tail(p))

(***************************************************************************)
(* Literals of the parser                                                  *)
(***************************************************************************)
Colon == 58
Space == 32
Bang == 33
\* "PING " (the colon forgotten)
PingPrefixNoColon == <<80, 73, 78, 71, 32>>

\* "PING :"
PingPrefix == <<80, 73, 78, 71, 32, 58>>
\* "privmsg"
PRIVMSG_lowercase == <<112, 114, 105, 118, 109, 115, 103>>

\* "PRIVMSG"
PRIVMSG == <<80, 82, 73, 86, 77, 83, 71>>

(***************************************************************************)
(* Results of from_str.  Panic is the abort of the call by a failed index  *)
(* expression; Pending is a call that has not returned.                    *)
(***************************************************************************)
Pending == [kind |-> "Pending", user |-> <<>>, text |-> <<>>, server |-> <<>>]

UnknownMessageType ==
    [kind |-> "UnknownMessageType", user |-> <<>>, text |-> <<>>, server |-> <<>>]

Panic == [kind |-> "Panic", user |-> <<>>, text |-> <<>>, server |-> <<>>]

PingMessage(server) ==
    [kind |-> "PingMessage", user |-> <<>>, text |-> <<>>, server |-> server]

\* UserMessage whose two copies keep the ASCII scalars only
UserMessageAsciiOnly(user, text) ==
    LET IsAscii(c) == c < 128
    IN  [kind |-> "UserMessage", user |-> SelectSeq(user, IsAscii),
         text |-> SelectSeq(text, IsAscii), server |-> <<>>]

UserMessage(user, text) ==
    [kind |-> "UserMessage", user |-> user, text |-> text, server |-> <<>>]

(***************************************************************************)
(* The input lines                                                         *)
(***************************************************************************)
SeqsUpTo(S, n) == UNION { [1..m -> S] : m \in 0..n }

Prefixes(L) == UNION { { SubSeq(l, 1, n) : n \in 0..Len(l) } : l \in L }

\* a, ':', ' ', tab, e-acute (2 bytes)
NickChars == {97, 58, 32, 9, 233}
Nicks == SeqsUpTo(NickChars, MaxNick)

\* "", "u", "!:"
Hosts == { <<>>, <<117>>, <<33, 58>> }

\* PRIVMSG, privmsg, JOIN, NOTICE, PING, 001, PRIVMS, the empty token
Tokens ==
    { <<80, 82, 73, 86, 77, 83, 71>>, <<112, 114, 105, 118, 109, 115, 103>>,
      <<74, 79, 73, 78>>, <<78, 79, 84, 73, 67, 69>>, <<80, 73, 78, 71>>,
      <<48, 48, 49>>, <<80, 82, 73, 86, 77, 83>>, <<>> }

\* "", "#c", "#:!"
Chans == { <<>>, <<35, 99>>, <<35, 58, 33>> }

\* a, ':', ' ', \n, e-acute
BodyChars == {97, 58, 32, 10, 233}

\* first scalar of the body: ':', x, ' ', e-acute (2 bytes), euro sign
\* (3 bytes), U+1F600 (4 bytes)
Firsts == { <<58>>, <<120>>, <<32>>, <<233>>, <<8364>>, <<128512>> }

\* "", " ", tab, \r\n, no-break space (2 bytes)
Pads == { <<>>, <<32>>, <<9>>, <<13, 10>>, <<160>> }

\* "", "a", "a :b", e-acute
Cores == { <<>>, <<97>>, <<97, 32, 58, 98>>, <<233>> }

Bodies ==
    SeqsUpTo(BodyChars, MaxBody)
        \cup { f \o l \o c \o t : f \in Firsts, l \in Pads, c \in Cores, t \in Pads }

TextLine(nick, bang, host, tok, chan, body) ==
    <<58>> \o nick \o bang \o host \o <<32>> \o tok \o <<32>> \o chan
           \o <<32>> \o body

\* lines that vary the sender prefix
PrefixLines ==
    { TextLine(n, b, h, t, <<35, 99>>, y) :
        n \in Nicks, b \in { <<33>>, <<>> }, h \in Hosts,
        t \in { <<80, 82, 73, 86, 77, 83, 71>>, <<74, 79, 73, 78>> },
        y \in { <<58, 97>>, <<233>> } }

\* lines that vary the command token and the channel
TokenLines ==
    { TextLine(<<97>>, <<33>>, h, t, c, y) :
        h \in Hosts, t \in Tokens, c \in Chans, y \in { <<58, 97>>, <<120>> } }

\* lines that vary the body
BodyLines ==
    { TextLine(n, <<33>>, h, <<80, 82, 73, 86, 77, 83, 71>>, c, y) :
        n \in { <<97>>, <<58, 233>> }, h \in { <<117>>, <<33, 58>> },
        c \in { <<>>, <<35, 99>> }, y \in Bodies }

\* "PING :", "PING ", "PING", "ping :", " PING :", "PONG :", "!", ""
PingHeads ==
    { <<80, 73, 78, 71, 32, 58>>, <<80, 73, 78, 71, 32>>, <<80, 73, 78, 71>>,
      <<112, 105, 110, 103, 32, 58>>, <<32, 80, 73, 78, 71, 32, 58>>,
      <<80, 79, 78, 71, 32, 58>>, <<33>>, <<>> }

PingLines == { h \o t : h \in PingHeads, t \in Bodies }

Lines == Prefixes(PrefixLines \cup TokenLines \cup BodyLines) \cup PingLines

(***************************************************************************)
(* The call                                                                *)
(***************************************************************************)
Init ==
    /\ raw_message \in Lines
    /\ pc = "parse_from_str"
    /\ state = "UserName"
    /\ marker = 0
    /\ user_name = <<>>
    /\ idx = 1
    /\ result = Pending
    /\ earlier = <<>>

\* the scalar the loop is at, and its byte offset
codepoint == raw_message[idx]
i == char_index(raw_message, idx)

Return(r) ==
    /\ result' = r
    /\ pc' = "done"

\* parse_from_str that finds the locals as the call before left them
parse_from_str_stale_locals ==
    /\ pc = "parse_from_str"
    /\ pc' = IF starts_with(raw_message, Colon)
             THEN "from_text_message" ELSE "from_ping_message"
    /\ idx' = 1
    /\ UNCHANGED <<argument, result, state, user_name, marker>>

\* MessageType::parse_from_str, and the locals of from_text_message
parse_from_str ==
    /\ pc = "parse_from_str"
    /\ pc' = IF starts_with(raw_message, Colon)
             THEN "from_text_message" ELSE "from_ping_message"
    /\ state' = "UserName"
    /\ user_name' = slice(raw_message, 0, 0)
    /\ marker' = 0
    /\ idx' = 1
    /\ UNCHANGED <<argument, result>>

\* MessageType::from_ping_message
from_ping_message ==
    /\ pc = "from_ping_message"
    /\ LET server == strip_prefix(raw_message, PingPrefix)
       IN  IF server.some THEN Return(PingMessage(server.rest))
           ELSE Return(UnknownMessageType)
    /\ UNCHANGED <<argument, state, marker, user_name, idx>>

InLoop(s) ==
    /\ pc = "from_text_message"
    /\ idx <= Len(raw_message)
    /\ state = s

\* the match on codepoint in state UserName, with ' ' taken for any other scalar
match_without_space(c) ==
    IF c = Colon THEN "mark"
    ELSE IF c = Bang THEN "capture"
    ELSE "other"

\* the match on codepoint in state UserName, with ':' taken for any other scalar
match_without_colon(c) ==
    IF c = Space THEN "fail"
    ELSE IF c = Bang THEN "capture"
    ELSE "other"

\* the match on codepoint in state UserName: which arm is taken
match_codepoint(c) ==
    IF c = Colon THEN "mark"
    ELSE IF c = Space THEN "fail"
    ELSE IF c = Bang THEN "capture"
    ELSE "other"

\* marker set to the offset of the ':' itself
marker_at(off) == off

\* marker set two bytes after the offset of the ':'
marker_two_after(off) == off + 2

\* marker = i + 1, in state UserName
marker_after(off) == off + 1

\* arm UserName of the loop of from_text_message
UserName ==
    /\ InLoop("UserName")
    /\ LET arm == match_codepoint(codepoint)
       IN  IF arm = "mark"
           THEN /\ marker' = marker_after(i)
                /\ idx' = idx + 1
                /\ UNCHANGED <<state, user_name, pc, result>>
           ELSE IF arm = "fail"
           THEN /\ Return(UnknownMessageType)
                /\ UNCHANGED <<state, marker, user_name, idx>>
           ELSE IF arm = "capture"
           THEN IF slice_ok(raw_message, marker, i)
                THEN /\ user_name' = slice(raw_message, marker, i)
                     /\ state' = "AdditionalUserInfo"
                     /\ idx' = idx + 1
                     /\ UNCHANGED <<marker, pc, result>>
                ELSE /\ Return(Panic)
                     /\ UNCHANGED <<state, marker, user_name, idx>>
           ELSE /\ idx' = idx + 1
                /\ UNCHANGED <<state, marker, user_name, pc, result>>
    /\ UNCHANGED argument

\* arm AdditionalUserInfo that goes to Channel, past MessageToken
AdditionalUserInfoSkipsToken ==
    /\ InLoop("AdditionalUserInfo")
    /\ IF codepoint = Space
       THEN /\ marker' = i + 1
            /\ state' = "Channel"
       ELSE UNCHANGED <<marker, state>>
    /\ idx' = idx + 1
    /\ UNCHANGED <<argument, user_name, pc, result>>

\* arm AdditionalUserInfo that captures user_name again at every '!'
AdditionalUserInfoRecaptures ==
    /\ InLoop("AdditionalUserInfo")
    /\ IF codepoint = Space
       THEN /\ marker' = i + 1
            /\ state' = "MessageToken"
            /\ UNCHANGED user_name
       ELSE /\ user_name' = IF codepoint = Bang THEN slice(raw_message, marker, i)
                            ELSE user_name
            /\ UNCHANGED <<marker, state>>
    /\ idx' = idx + 1
    /\ UNCHANGED <<argument, pc, result>>

\* arm AdditionalUserInfo
AdditionalUserInfo ==
    /\ InLoop("AdditionalUserInfo")
    /\ IF codepoint = Space
       THEN /\ marker' = i + 1
            /\ state' = "MessageToken"
       ELSE UNCHANGED <<marker, state>>
    /\ idx' = idx + 1
    /\ UNCHANGED <<argument, user_name, pc, result>>

\* arm MessageToken
MessageToken ==
    /\ InLoop("MessageToken")
    /\ IF codepoint = Space
       THEN IF slice_ok(raw_message, marker, i)
            THEN IF slice(raw_message, marker, i) = PRIVMSG
                 THEN /\ state' = "Channel"
                      /\ idx' = idx + 1
                      /\ UNCHANGED <<pc, result>>
                 ELSE /\ Return(UnknownMessageType)
                      /\ UNCHANGED <<state, idx>>
            ELSE /\ Return(Panic)
                 /\ UNCHANGED <<state, idx>>
       ELSE /\ idx' = idx + 1
            /\ UNCHANGED <<state, pc, result>>
    /\ UNCHANGED <<argument, marker, user_name>>

\* arm Channel that leaves the state at any scalar
ChannelAnyScalar ==
    /\ InLoop("Channel")
    /\ state' = "MessageText"
    /\ idx' = idx + 1
    /\ UNCHANGED <<argument, marker, user_name, pc, result>>

\* arm Channel
Channel ==
    /\ InLoop("Channel")
    /\ state' = IF codepoint = Space THEN "MessageText" ELSE state
    /\ idx' = idx + 1
    /\ UNCHANGED <<argument, marker, user_name, pc, result>>

\* arm MessageText that keeps the scalar it is at
MessageTextFromI ==
    /\ InLoop("MessageText")
    /\ LET len == char_index(raw_message, Len(raw_message) + 1)
       IN  IF slice_ok(raw_message, i, len)
           THEN Return(UserMessage(user_name, trim(slice(raw_message, i, len))))
           ELSE Return(Panic)
    /\ UNCHANGED <<argument, state, marker, user_name, idx>>

\* arm MessageText that takes an empty body for a missing one
MessageTextRejectsEmpty ==
    /\ InLoop("MessageText")
    /\ LET len == char_index(raw_message, Len(raw_message) + 1)
       IN  IF slice_ok(raw_message, i + 1, len)
           THEN IF trim(slice(raw_message, i + 1, len)) = <<>>
                THEN Return(UnknownMessageType)
                ELSE Return(UserMessage(user_name,
                                        trim(slice(raw_message, i + 1, len))))
           ELSE Return(Panic)
    /\ UNCHANGED <<argument, state, marker, user_name, idx>>

\* arm MessageText
MessageText ==
    /\ InLoop("MessageText")
    /\ LET len == char_index(raw_message, Len(raw_message) + 1)
       IN  IF slice_ok(raw_message, i + 1, len)
           THEN Return(UserMessage(user_name,
                                   trim(slice(raw_message, i + 1, len))))
           ELSE Return(Panic)
    /\ UNCHANGED <<argument, state, marker, user_name, idx>>

\* loop exit that emits an empty text when the scan ended in MessageText
ScanEndEmits ==
    /\ pc = "from_text_message"
    /\ idx > Len(raw_message)
    /\ IF state = "MessageText" THEN Return(UserMessage(user_name, <<>>))
       ELSE Return(UnknownMessageType)
    /\ UNCHANGED <<argument, state, marker, user_name, idx>>

\* the loop has read the whole line
ScanEnd ==
    /\ pc = "from_text_message"
    /\ idx > Len(raw_message)
    /\ Return(UnknownMessageType)
    /\ UNCHANGED <<argument, state, marker, user_name, idx>>

from_text_message ==
    \/ UserName
    \/ AdditionalUserInfo
    \/ MessageToken
    \/ Channel
    \/ MessageText
    \/ ScanEnd

Next ==
    \/ parse_from_str
    \/ from_ping_message
    \/ from_text_message

Spec == Init /\ [][Next]_vars

(***************************************************************************)
(* Calls that follow one another.  The memory of the locals of the call    *)
(* that returned is not cleared: the next call finds it as it was left.    *)
(***************************************************************************)
\* ":a!<host> PRIVMSG #c :a b" for every host, ":a!u PRIVMSG <chan> :a b" for
\* every channel
ReplayAccepted ==
    { TextLine(<<97>>, <<33>>, h, <<80, 82, 73, 86, 77, 83, 71>>, <<35, 99>>,
               <<58, 97, 32, 98>>) : h \in Hosts }
    \cup { TextLine(<<97>>, <<33>>, <<117>>, <<80, 82, 73, 86, 77, 83, 71>>, c,
                    <<58, 97, 32, 98>>) : c \in Chans }

\* ":a!u JOIN #c :a", ":a u PRIVMSG #c :a", ":a!u PRIVMSG #c <e-acute>",
\* ":a!u PRIVMSG #c", "PING :a", "PING a"
ReplayOthers ==
    { TextLine(<<97>>, <<33>>, <<117>>, <<74, 79, 73, 78>>, <<35, 99>>, <<58, 97>>),
      TextLine(<<97>>, <<>>, <<32, 117>>, <<80, 82, 73, 86, 77, 83, 71>>, <<35, 99>>,
               <<58, 97>>),
      TextLine(<<97>>, <<33>>, <<117>>, <<80, 82, 73, 86, 77, 83, 71>>, <<35, 99>>,
               <<233>>),
      <<58, 97, 33, 117, 32, 80, 82, 73, 86, 77, 83, 71, 32, 35, 99>>,
      <<80, 73, 78, 71, 32, 58, 97>>,
      <<80, 73, 78, 71, 32, 97>> }

ReplayLines == ReplayAccepted \cup ReplayOthers

InitCalls ==
    /\ raw_message \in ReplayLines
    /\ pc = "parse_from_str"
    /\ state = "UserName"
    /\ marker = 0
    /\ user_name = <<>>
    /\ idx = 1
    /\ result = Pending
    /\ earlier = <<>>

\* FromStr::from_str called once more, after the call before has returned
from_str ==
    /\ pc = "done"
    /\ Len(earlier) + 1 < MaxCalls
    /\ earlier' = Append(earlier, [line |-> raw_message, result |-> result])
    /\ raw_message' \in ReplayLines
    /\ pc' = "parse_from_str"
    /\ result' = Pending
    /\ UNCHANGED <<state, marker, user_name, idx>>

NextCalls ==
    \/ from_str
    \/ parse_from_str
    \/ from_ping_message
    \/ from_text_message

SpecCalls == InitCalls /\ [][NextCalls]_vars

Done == pc = "done"

TypeOK ==
    /\ pc \in {"parse_from_str", "from_ping_message", "from_text_message", "done"}
    /\ state \in {"UserName", "AdditionalUserInfo", "MessageToken", "Channel",
                  "MessageText"}
    /\ result.kind \in {"Pending", "UserMessage", "PingMessage",
                        "UnknownMessageType", "Panic"}
    /\ (result.kind = "Pending") <=> ~Done

(***************************************************************************)
(* Vocabulary of the properties: positions in the line, stated without     *)
(* the parser's own operators                                              *)
(***************************************************************************)
InputLen == Len(raw_message)

HasPrefix(s, p) == Len(s) >= Len(p) /\ SubSeq(s, 1, Len(p)) = p

\* index of the first c in s at or after index from, 0 when there is none
FirstFrom(s, c, from) ==
    LET hits == { k \in from..Len(s) : s[k] = c }
    IN  IF hits = {} THEN 0 ELSE CHOOSE k \in hits : \A j \in hits : k <= j

FirstIndex(s, c) == FirstFrom(s, c, 1)

IsUserMessage == Done /\ result.kind = "UserMessage"
IsPingMessage == Done /\ result.kind = "PingMessage"
IsUnknown == Done /\ result.kind = "UnknownMessageType"

AsciiWhitespace == {32, 9, 10, 13}

(***************************************************************************)
(* C1: parse returns PingMessage(server) if and only if the line begins    *)
(* with the 6 characters "PING :", and then server is the rest of the line *)
(* from offset 6 to the end, unchanged.                                    *)
(***************************************************************************)
C1_PingIffPrefix ==
    Done =>
        /\ (result.kind = "PingMessage")
               <=> HasPrefix(raw_message, <<80, 73, 78, 71, 32, 58>>)
        /\ result.kind = "PingMessage"
               => result.server = SubSeq(raw_message, 7, InputLen)

\* a PING line whose argument starts and ends with whitespace has returned
C1_Witness ==
    /\ IsPingMessage
    /\ Len(result.server) >= 3
    /\ result.server[1] = 32
    /\ result.server[Len(result.server)] = 10

(***************************************************************************)
(* C2: for every input line the call returns one of UserMessage,           *)
(* PingMessage or UnknownMessageType; no input makes it panic, in          *)
(* particular not the slice input[i+1..] taken in state MessageText.       *)
(***************************************************************************)
C2_NeverPanics ==
    Done => result.kind \in {"UserMessage", "PingMessage", "UnknownMessageType"}

(***************************************************************************)
(* C3: the text of a UserMessage has no leading and no trailing ASCII      *)
(* whitespace character (space, tab, \n, \r).                              *)
(***************************************************************************)
C3_TextTrimmed ==
    IsUserMessage /\ result.text # <<>> =>
        /\ result.text[1] \notin AsciiWhitespace
        /\ result.text[Len(result.text)] \notin AsciiWhitespace

\* a line that ends with \n was accepted with a text that is not empty
C3_Witness ==
    /\ IsUserMessage
    /\ result.text # <<>>
    /\ raw_message[InputLen] = 10

(***************************************************************************)
(* Landmarks of the line                                                   *)
(***************************************************************************)
\* index at which p first occurs in s at or after index from, 0 when nowhere
FindFrom(s, p, from) ==
    LET hits == { k \in from..(Len(s) - Len(p) + 1) :
                      SubSeq(s, k, k + Len(p) - 1) = p }
    IN  IF hits = {} THEN 0 ELSE CHOOSE k \in hits : \A j \in hits : k <= j

FirstBang == FirstIndex(raw_message, 33)
FirstSpace == FirstIndex(raw_message, 32)
FirstColon == FirstIndex(raw_message, 58)

\* the last ':' before the first '!'
LastColonBeforeBang ==
    LET hits == { k \in 1..(FirstBang - 1) : raw_message[k] = 58 }
    IN  IF hits = {} THEN 0 ELSE CHOOSE k \in hits : \A j \in hits : j <= k

\* the line begins with ':' and has a '!' before any space
WellFormedPrefix ==
    /\ raw_message # <<>>
    /\ raw_message[1] = 58
    /\ FirstBang > 0
    /\ (FirstSpace = 0 \/ FirstBang < FirstSpace)

\* the space that ends the sender prefix, the one that ends the command
\* token and the one that ends the channel token (0: there is none)
PrefixSpace == IF FirstBang = 0 THEN 0 ELSE FirstFrom(raw_message, 32, FirstBang + 1)
TokenSpace == IF PrefixSpace = 0 THEN 0 ELSE FirstFrom(raw_message, 32, PrefixSpace + 1)
ChannelSpace == IF TokenSpace = 0 THEN 0 ELSE FirstFrom(raw_message, 32, TokenSpace + 1)

HasToken == TokenSpace > 0
Token == SubSeq(raw_message, PrefixSpace + 1, TokenSpace - 1)

WhiteSpace ==
    (9..13) \cup {32, 133, 160, 5760} \cup (8192..8202)
            \cup {8232, 8233, 8239, 8287, 12288}

\* s without the whitespace at its two ends
Strip(s) ==
    LET solid == { k \in 1..Len(s) : s[k] \notin WhiteSpace }
    IN  IF solid = {} THEN <<>>
        ELSE SubSeq(s, CHOOSE k \in solid : \A j \in solid : k <= j,
                       CHOOSE k \in solid : \A j \in solid : j <= k)

(***************************************************************************)
(* C4: the user of a UserMessage contains no whitespace character of any   *)
(* kind (space, tab, \n, \r) and neither '!' nor ':'.                      *)
(* As stated it fails: only the space ends the scan in state UserName.     *)
(***************************************************************************)
C4_UserNoWhitespace ==
    IsUserMessage =>
        \A k \in 1..Len(result.user) :
            result.user[k] \notin AsciiWhitespace \cup {33, 58}

\* C4 as amended: the user of a UserMessage contains no space (U+0020),
\* no '!' and no ':'; other whitespace (tab, \n, \r) may occur in it.
C4_UserNoSpaceBangColon ==
    IsUserMessage =>
        \A k \in 1..Len(result.user) : result.user[k] \notin {32, 33, 58}

\* a line with a tab in the nickname was accepted, the tab is in user
C4_Witness ==
    /\ IsUserMessage
    /\ \E k \in 1..Len(result.user) : result.user[k] = 9

(***************************************************************************)
(* C5: an input accepted as UserMessage contains the substrings ":", "!",  *)
(* " PRIVMSG " and " :" in that left-to-right order.                       *)
(* As stated it fails: the scalar after the channel-terminating space need *)
(* not be ':'.                                                             *)
(***************************************************************************)
C5_OrderedSubstrings ==
    IsUserMessage =>
        LET a == FindFrom(raw_message, <<58>>, 1)
            b == FindFrom(raw_message, <<33>>, a + 1)
            c == FindFrom(raw_message, <<32, 80, 82, 73, 86, 77, 83, 71, 32>>, b + 1)
            d == FindFrom(raw_message, <<32, 58>>, c + 1)
        IN  a > 0 /\ b > 0 /\ c > 0 /\ d > 0

\* C5 as amended: an input accepted as UserMessage contains ":", "!",
\* " PRIVMSG " and then, after that substring, a space followed by at least
\* one more scalar (any scalar, not only ':'), in that left-to-right order.
C5_OrderedLandmarks ==
    IsUserMessage =>
        LET a == FindFrom(raw_message, <<58>>, 1)
            b == FindFrom(raw_message, <<33>>, a + 1)
            c == FindFrom(raw_message, <<32, 80, 82, 73, 86, 77, 83, 71, 32>>, b + 1)
        IN  /\ a > 0 /\ b > 0 /\ c > 0
            /\ \E k \in (c + 9)..(InputLen - 1) : raw_message[k] = 32

\* a line with no " :" at all was accepted
C5_Witness ==
    /\ IsUserMessage
    /\ FindFrom(raw_message, <<32, 58>>, 1) = 0

(***************************************************************************)
(* C6: a PING line that still carries a trailing \r or \n fails with       *)
(* UnknownMessageType.                                                     *)
(* As stated it fails: the PING branch accepts it.                         *)
(***************************************************************************)
PingLineWithNewline ==
    /\ HasPrefix(raw_message, <<80, 73, 78, 71, 32, 58>>)
    /\ InputLen > 6
    /\ raw_message[InputLen] \in {10, 13}

C6_PingWithNewlineFails ==
    Done /\ PingLineWithNewline => result.kind = "UnknownMessageType"

\* C6 as amended: a PING line that still carries a trailing \r or \n is
\* accepted as PingMessage, and server ends with those characters.
C6_PingKeepsNewline ==
    Done /\ PingLineWithNewline =>
        /\ result.kind = "PingMessage"
        /\ Len(result.server) = InputLen - 6
        /\ result.server[Len(result.server)] = raw_message[InputLen]

\* a PING line that ends with \r\n has returned
C6_Witness ==
    /\ Done
    /\ PingLineWithNewline
    /\ InputLen > 8
    /\ raw_message[InputLen - 1] = 13
    /\ raw_message[InputLen] = 10

(***************************************************************************)
(* C7: the user of a UserMessage is the substring of the input between the *)
(* first ':' of the line and the first '!' of the line.                    *)
(* As stated it fails: every ':' before the first '!' moves the start.     *)
(***************************************************************************)
C7_UserAfterFirstColon ==
    IsUserMessage =>
        result.user = SubSeq(raw_message, FirstColon + 1, FirstBang - 1)

\* C7 as amended: the user of a UserMessage is the substring of the input
\* between the last ':' that precedes the first '!' and that first '!'.
C7_UserAfterLastColon ==
    IsUserMessage =>
        /\ FirstBang > 0
        /\ LastColonBeforeBang > 0
        /\ result.user = SubSeq(raw_message, LastColonBeforeBang + 1, FirstBang - 1)

\* a line with two ':' before the first '!' and a nickname after the second
\* one was accepted
C7_Witness ==
    /\ IsUserMessage
    /\ LastColonBeforeBang > FirstColon
    /\ result.user # <<>>

(***************************************************************************)
(* C8: the text of a UserMessage is input[i+1..] with the surrounding      *)
(* whitespace stripped, i being the offset of the first scalar after the   *)
(* space that ended the channel token: that one scalar is dropped, ':' or  *)
(* not, and everything after it up to the end of the line is kept.         *)
(***************************************************************************)
C8_TextIsRestAfterOneScalar ==
    IsUserMessage =>
        /\ ChannelSpace > 0
        /\ ChannelSpace < InputLen
        /\ result.text = Strip(SubSeq(raw_message, ChannelSpace + 2, InputLen))

\* a line whose dropped scalar is not ':' and whose body has a space and a
\* ':' inside was accepted
C8_Witness ==
    /\ IsUserMessage
    /\ raw_message[ChannelSpace + 1] # 58
    /\ \E k \in 1..Len(result.text) : result.text[k] = 32
    /\ \E k \in 1..Len(result.text) : result.text[k] = 58

(***************************************************************************)
(* C9: a line that begins with ':' and has a '!' before any space is       *)
(* accepted only if the token between the first space after '!' and the    *)
(* next space is exactly "PRIVMSG"; any other token there (the empty one,  *)
(* privmsg, JOIN, NOTICE, PING, a numeric) yields UnknownMessageType.      *)
(***************************************************************************)
C9_OnlyPrivmsg ==
    Done /\ WellFormedPrefix =>
        /\ result.kind = "UserMessage"
               => HasToken /\ Token = <<80, 82, 73, 86, 77, 83, 71>>
        /\ HasToken /\ Token # <<80, 82, 73, 86, 77, 83, 71>>
               => result.kind = "UnknownMessageType"

\* a line with the token privmsg and a complete tail has returned
C9_Witness ==
    /\ Done
    /\ WellFormedPrefix
    /\ HasToken
    /\ Token = <<112, 114, 105, 118, 109, 115, 103>>
    /\ ChannelSpace > 0
    /\ ChannelSpace < InputLen

(***************************************************************************)
(* C10: a line that begins with ':' and has a space before its first '!',  *)
(* or no '!' at all, yields UnknownMessageType, whatever follows.          *)
(***************************************************************************)
C10_PrefixNeedsBang ==
    /\ Done
    /\ raw_message # <<>>
    /\ raw_message[1] = 58
    /\ (FirstBang = 0 \/ (FirstSpace > 0 /\ FirstSpace < FirstBang))
    => result.kind = "UnknownMessageType"

\* a line with a space before its first '!' and a complete PRIVMSG tail
\* after it has returned
C10_Witness ==
    /\ Done
    /\ raw_message # <<>>
    /\ raw_message[1] = 58
    /\ FirstSpace > 0
    /\ FirstSpace < FirstBang
    /\ FindFrom(raw_message, <<32, 80, 82, 73, 86, 77, 83, 71, 32, 35, 99, 32, 58, 97>>,
                FirstBang) > 0

(***************************************************************************)
(* C11: when the scan of a line that begins with ':' exhausts the input    *)
(* before a scalar was read in state MessageText, the result is            *)
(* UnknownMessageType: entering MessageText does not emit.  This covers    *)
(* ":" alone, a line truncated in an earlier state, a PRIVMSG line with no *)
(* space after the channel and a line that ends at that space.             *)
(***************************************************************************)
C11_NoEmissionWithoutBodyScalar ==
    /\ Done /\ raw_message # <<>> /\ raw_message[1] = 58
            /\ (ChannelSpace = 0 \/ ChannelSpace = InputLen)
       => result.kind = "UnknownMessageType"
    /\ pc = "from_text_message" /\ state = "MessageText" /\ idx > InputLen
       => result = Pending

\* a line that ends exactly at the channel-terminating space has returned,
\* the scan having entered MessageText
C11_Witness ==
    /\ IsUnknown
    /\ state = "MessageText"
    /\ ChannelSpace > 0
    /\ ChannelSpace = InputLen

(***************************************************************************)
(* C12: on an accepted line whose nickname or body has multi-byte scalars, *)
(* user and text are made of whole scalars of the input, copied unchanged: *)
(* user is the run of scalars that ends before the first '!', text is a    *)
(* run of scalars of the body, and what the body loses around it is        *)
(* whitespace only.                                                        *)
(***************************************************************************)
HasMultiByte(s) == \E k \in 1..Len(s) : s[k] >= 128

C12_ScalarsPreserved ==
    /\ IsUserMessage
    /\ \/ HasMultiByte(SubSeq(raw_message, 1, FirstBang - 1))
       \/ HasMultiByte(SubSeq(raw_message, ChannelSpace + 2, InputLen))
    => /\ Len(result.user) < FirstBang
       /\ result.user = SubSeq(raw_message, FirstBang - Len(result.user), FirstBang - 1)
       /\ HasMultiByte(result.user)
              = HasMultiByte(SubSeq(raw_message, LastColonBeforeBang, FirstBang))
       /\ \E a \in (ChannelSpace + 2)..(InputLen + 1) :
              LET b == a + Len(result.text) - 1
              IN  /\ b <= InputLen
                  /\ result.text = SubSeq(raw_message, a, b)
                  /\ \A k \in ((ChannelSpace + 2)..(a - 1)) \cup ((b + 1)..InputLen) :
                         raw_message[k] \in WhiteSpace

\* a line with a multi-byte scalar in its nickname and one in its body was
\* accepted
C12_Witness ==
    /\ IsUserMessage
    /\ HasMultiByte(result.user)
    /\ HasMultiByte(result.text)

(***************************************************************************)
(* C13: parse is deterministic and stateless: two calls on equal lines     *)
(* return equal results, whatever call came before, and each call starts   *)
(* the scan in state UserName with marker 0 and an empty user_name.        *)
(***************************************************************************)
C13_DeterministicStateless ==
    /\ Done => \A k \in 1..Len(earlier) :
                   earlier[k].line = raw_message => earlier[k].result = result
    /\ pc = "from_text_message" /\ idx = 1
           => state = "UserName" /\ marker = 0 /\ user_name = <<>>

\* a line was accepted, then another line was parsed, then the first line
\* was accepted again
C13_Witness ==
    /\ IsUserMessage
    /\ Len(earlier) = 2
    /\ earlier[1].line = raw_message
    /\ earlier[2].line # raw_message
    /\ earlier[2].result.kind \in {"UserMessage", "Panic"}

(***************************************************************************)
(* Byte offsets, counted from the widths of the scalars                    *)
(***************************************************************************)
ByteWidth(c) == IF c <= 127 THEN 1 ELSE IF c <= 2047 THEN 2 ELSE IF c <= 65535 THEN 3 ELSE 4

RECURSIVE BytesOf(_)
BytesOf(s) == IF s = <<>> THEN 0 ELSE ByteWidth(Head(s)) + BytesOf(Tail(s))

\* off is the offset at which a scalar of s starts, or the length of s
OnScalarBoundary(s, off) ==
    \E k \in 0..Len(s) : off = BytesOf(SubSeq(s, 1, k))

\* the scan is about to read the scalar at idx
AtScalar == pc = "from_text_message" /\ idx <= InputLen

\* offset of the scalar the scan is at
OffsetHere == BytesOf(SubSeq(raw_message, 1, idx - 1))

(***************************************************************************)
(* C14: in every step of the scan each byte offset used to slice the input *)
(* (marker and i for the nickname and the token, i + 1 for the body at     *)
(* emission) lies on a scalar boundary, also when the first scalar after   *)
(* the channel-terminating space is multi-byte.                            *)
(* It fails at emission: i + 1 is inside a multi-byte scalar.              *)
(***************************************************************************)
C14_SliceOffsetsOnBoundary ==
    AtScalar =>
        /\ state = "UserName" /\ raw_message[idx] = 33
               => /\ OnScalarBoundary(raw_message, marker)
                  /\ OnScalarBoundary(raw_message, i)
        /\ state = "MessageToken" /\ raw_message[idx] = 32
               => /\ OnScalarBoundary(raw_message, marker)
                  /\ OnScalarBoundary(raw_message, i)
        /\ state = "MessageText" => OnScalarBoundary(raw_message, i + 1)

(***************************************************************************)
(* C15: the user of a UserMessage is the substring strictly between the    *)
(* last ':' before the first '!' and that '!': each ':' read in state      *)
(* UserName moves the start of the nickname to the offset just after it,   *)
(* so "::a!..." yields the user "a" and ":!..." the empty user.            *)
(***************************************************************************)
\* index of the last ':' among the scalars already read, 0 when none
LastColonRead ==
    LET hits == { k \in 1..(idx - 1) : raw_message[k] = 58 }
    IN  IF hits = {} THEN 0 ELSE CHOOSE k \in hits : \A j \in hits : j <= k

C15_MarkerFollowsLastColon ==
    /\ pc = "from_text_message" /\ state = "UserName"
           => marker = BytesOf(SubSeq(raw_message, 1, LastColonRead))
    /\ IsUserMessage
           => /\ Len(result.user) = FirstBang - LastColonBeforeBang - 1
              /\ \A k \in 1..Len(result.user) :
                     result.user[k] = raw_message[LastColonBeforeBang + k]

\* the line "::a!..." was accepted with the user "a"
C15_Witness ==
    /\ IsUserMessage
    /\ SubSeq(raw_message, 1, 4) = <<58, 58, 97, 33>>
    /\ result.user = <<97>>

(***************************************************************************)
(* C16: during a scan the parsing state only moves forward along           *)
(* UserName, AdditionalUserInfo, MessageToken, Channel, MessageText, one   *)
(* stage at a time; the scan stops at the first scalar read in MessageText *)
(* or at the first failure.                                                *)
(***************************************************************************)
Stage(st) ==
    CASE st = "UserName" -> 1
      [] st = "AdditionalUserInfo" -> 2
      [] st = "MessageToken" -> 3
      [] st = "Channel" -> 4
      [] st = "MessageText" -> 5

C16_ForwardOnly ==
    [][ /\ pc # "done"
        /\ Stage(state') \in {Stage(state), Stage(state) + 1}
        /\ AtScalar /\ state = "MessageText" => pc' = "done"
        /\ result'.kind # "Pending" => pc' = "done"
        /\ pc = "from_text_message" /\ pc' # "done" => idx' = idx + 1
      ]_vars

\* a scan went through the five states and stopped at the first scalar it
\* read in MessageText, with more of the line left
C16_Witness ==
    /\ Done
    /\ state = "MessageText"
    /\ idx = ChannelSpace + 1
    /\ idx < InputLen

(***************************************************************************)
(* C17: the result does not depend on the discarded parts of the line: two *)
(* lines that differ only in the channel token, or only in the part        *)
(* between the first '!' and the following space (sequences without a      *)
(* space, the empty one included), give equal results.                     *)
(***************************************************************************)
BangOf(s) == FirstIndex(s, 33)
PrefixSpaceOf(s) == IF BangOf(s) = 0 THEN 0 ELSE FirstFrom(s, 32, BangOf(s) + 1)
TokenSpaceOf(s) == IF PrefixSpaceOf(s) = 0 THEN 0 ELSE FirstFrom(s, 32, PrefixSpaceOf(s) + 1)
ChannelSpaceOf(s) == IF TokenSpaceOf(s) = 0 THEN 0 ELSE FirstFrom(s, 32, TokenSpaceOf(s) + 1)

\* x and y are the same line up to the channel token
DifferInChannelOnly(x, y) ==
    /\ ChannelSpaceOf(x) > 0
    /\ ChannelSpaceOf(y) > 0
    /\ SubSeq(x, 1, TokenSpaceOf(x)) = SubSeq(y, 1, TokenSpaceOf(y))
    /\ SubSeq(x, ChannelSpaceOf(x), Len(x)) = SubSeq(y, ChannelSpaceOf(y), Len(y))

\* x and y are the same line up to the part between '!' and the next space
DifferInHostOnly(x, y) ==
    /\ PrefixSpaceOf(x) > 0
    /\ PrefixSpaceOf(y) > 0
    /\ SubSeq(x, 1, BangOf(x)) = SubSeq(y, 1, BangOf(y))
    /\ SubSeq(x, PrefixSpaceOf(x), Len(x)) = SubSeq(y, PrefixSpaceOf(y), Len(y))

C17_DiscardedPartsDoNotMatter ==
    Done => \A k \in 1..Len(earlier) :
                \/ DifferInChannelOnly(earlier[k].line, raw_message)
                \/ DifferInHostOnly(earlier[k].line, raw_message)
                => earlier[k].result = result

\* three different lines were accepted: the third differs from the first in
\* the channel only and from the second in the host part only
C17_Witness ==
    /\ IsUserMessage
    /\ Len(earlier) = 2
    /\ earlier[1].line # raw_message
    /\ earlier[2].line # raw_message
    /\ DifferInChannelOnly(earlier[1].line, raw_message)
    /\ DifferInHostOnly(earlier[2].line, raw_message)

(***************************************************************************)
(* C18: whenever the scan takes the slice input[marker..i] (the nickname   *)
(* at the first '!', the token at the space that ends MessageToken),       *)
(* marker <= i <= length of the input; marker is only ever one past the    *)
(* offset of a 1-byte scalar already read (':' or ' ').                    *)
(***************************************************************************)
C18_SliceRangeInBounds ==
    AtScalar =>
        /\ \/ state = "UserName" /\ raw_message[idx] = 33
           \/ state = "MessageToken" /\ raw_message[idx] = 32
           => /\ marker <= OffsetHere
              /\ i = OffsetHere
              /\ OffsetHere <= BytesOf(raw_message)
        /\ \/ marker = 0
           \/ \E k \in 1..(idx - 1) :
                  /\ raw_message[k] \in {58, 32}
                  /\ marker = BytesOf(SubSeq(raw_message, 1, k - 1)) + 1

\* the scan is at the space that ends the token, on a line with a
\* multi-byte scalar before it
C18_Witness ==
    /\ AtScalar
    /\ state = "MessageToken"
    /\ raw_message[idx] = 32
    /\ marker > 0
    /\ HasMultiByte(SubSeq(raw_message, 1, idx - 1))

(***************************************************************************)
(* C19: user_name is captured once, at the first '!', and no later step    *)
(* changes it: a ':' or a '!' after the first '!' (in the host part, the   *)
(* channel or the body) and the update of marker in AdditionalUserInfo do  *)
(* not change the user that is returned.                                   *)
(***************************************************************************)
C19_UserNameCapturedOnce ==
    [][ /\ pc = "from_text_message" /\ state = "UserName" /\ state' # "UserName"
               => idx = FirstBang
        /\ pc = "from_text_message" /\ state = "UserName" /\ state' = "UserName"
               => user_name' = <<>>
        /\ pc = "from_text_message" /\ state # "UserName"
               => /\ user_name' = user_name
                  /\ result'.kind = "UserMessage" => result'.user = user_name
      ]_vars

\* a line with a '!' in its host part and a ':' or '!' in its channel was
\* accepted with a user that is not empty
C19_Witness ==
    /\ IsUserMessage
    /\ result.user # <<>>
    /\ \E k \in (FirstBang + 1)..(PrefixSpace - 1) : raw_message[k] = 33
    /\ \E k \in (TokenSpace + 1)..(ChannelSpace - 1) : raw_message[k] \in {33, 58}

(***************************************************************************)
(* C20: a PRIVMSG line whose trailing parameter is present but empty or    *)
(* whitespace-only (the line ends with " :" or with " :" and whitespace    *)
(* only) is accepted as UserMessage with the empty text.                   *)
(***************************************************************************)
EmptyTrailingParameter ==
    /\ WellFormedPrefix
    /\ HasToken
    /\ Token = <<80, 82, 73, 86, 77, 83, 71>>
    /\ ChannelSpace > 0
    /\ ChannelSpace < InputLen
    /\ raw_message[ChannelSpace + 1] = 58
    /\ \A k \in (ChannelSpace + 2)..InputLen : raw_message[k] \in WhiteSpace

C20_EmptyBodyAccepted ==
    Done /\ EmptyTrailingParameter =>
        /\ result.kind = "UserMessage"
        /\ result.text = <<>>

\* a line that ends with " :" and \r\n has returned
C20_Witness ==
    /\ Done
    /\ EmptyTrailingParameter
    /\ InputLen = ChannelSpace + 3
    /\ raw_message[InputLen - 1] = 13
    /\ raw_message[InputLen] = 10

====
